---- MODULE Spec2Model ----
(***************************************************************************)
(* State-machine model of WebCallingClient (src/unnamed/part_000): the     *)
(* connect / register / unregister / disconnect lifecycle of one sip.js    *)
(* user agent, the reconnect supervision run by the transport              *)
(* 'disconnected' handler, and the session registry.                       *)
(*                                                                         *)
(* JavaScript is single threaded: the code between two awaits runs as one  *)
(* atomic step.  A continuation whose promise has settled waits in the     *)
(* microtask queue `mq` (first in, first out); engine events and timers    *)
(* are macrotasks and run only when that queue is empty; the application   *)
(* may call connect(), disconnect() and invite() at any moment.            *)
(***************************************************************************)
EXTENDS Naturals, Sequences, FiniteSets, TLC

\* ---------------------------------------------------------------- bounds
MaxUA         == 3   \* engine instances alive (referenced) at the same time
MaxProm       == 3   \* 'registered'/'unregistered' promise objects alive at once
MaxConnect    == 2   \* connect() calls by the application
MaxDisconnect == 2   \* disconnect() calls by the application
MaxInvite     == 1   \* invite() calls by the application
MaxSess       == 2   \* Session objects ever constructed
MaxEmit       == 2   \* 'terminated' emissions of one session
MaxLoss       == 1   \* unexpected transport losses while the application makes several calls

\* private retries: number = 10
retries == 10

MaxProc == MaxConnect + MaxDisconnect + MaxInvite + MaxUA

UAs   == 1..MaxUA
Proms == 1..MaxProm
Procs == 1..MaxProc
Sess  == 1..MaxSess

VARIABLES
  ua,                        \* this.ua: 0 (undefined) or the engine instance
  transportConnectedPromise, \* this.transportConnectedPromise: 0 or the instance whose promise it is
  unregisteredPromise,       \* this.unregisteredPromise: 0 or a promise object
  registeredPromise,         \* this.registeredPromise: 0 or a promise object
  disconnectPromise,         \* this.disconnectPromise: 0 (never assigned by the code)
  registered,                \* this.registered
  isReconnecting,            \* this.isReconnecting
  sessions,                  \* this.sessions: the ids (keys) present in the map
  eng,                       \* the engine instances (UA objects) and their transports
  prom,                      \* the promise objects behind registeredPromise / unregisteredPromise
  proc,                      \* the running async calls: connect, disconnect, invite, handlers
  mq,                        \* microtask queue: continuations ready to resume
  sessionObj,                \* the WebCallingSession objects
  budget,                    \* how many more calls the application will make
  hist                       \* observation: what the reconnect supervision reported

vars == <<ua, transportConnectedPromise, unregisteredPromise, registeredPromise,
          disconnectPromise, registered, isReconnecting, sessions, eng, prom,
          proc, mq, sessionObj, budget, hist>>

\* ------------------------------------------------------- initial records
\* An engine instance (new UA(options)) and its transport.
\*   st: free (no such object) | init (constructed) | live (started)
\*   tr: none | connecting | connected | closed
\*   lsnUA: the listeners configureUA puts on the UA ('transportCreated', 'invite')
\*   lsnConn, lsnDisc: the once-listeners on the transport
\*   onReg, onFail, onUnreg: the once-listeners connect()/disconnect() put on the
\*     UA, as the promise each settles, in the order they were added
\*   tcp, tcpw: the promise made by configureUA and the calls awaiting it
\*   regQ, unregQ: register / unregister commands the engine has not answered
\*   discQ: the calls awaiting ua.disconnect()
\*   nStart .. nDisc: commands this instance has received
FreeEng == [st |-> "free", tr |-> "none", lsnUA |-> FALSE, lsnConn |-> FALSE,
            lsnDisc |-> FALSE, onReg |-> <<>>, onFail |-> <<>>, onUnreg |-> <<>>,
            tcp |-> "pending", tcpw |-> <<>>,
            regQ |-> 0, unregQ |-> 0, discQ |-> {},
            nStart |-> 0, nReg |-> 0, nUnreg |-> 0, nDisc |-> 0]

\* A promise object: st free | pending | resolved | rejected; w: the calls
\* awaiting it; err: what it was rejected with ("err": an Error, "abort": a
\* TypeError or a value that is no Error, on which p-retry gives up at once).
FreeProm == [st |-> "free", kind |-> "none", w |-> <<>>, err |-> "none"]

\* A running async call.  kind: connect | disconnect | invite (called by the
\* application) | handler (the transport 'disconnected' listener of instance
\* hua, with the disconnect(), reconnect() and connect() calls it awaits).
\*   pr, slot: the promise / the instance whose promise the call awaits
\*   attempt: p-retry's attemptNumber;  res: how the awaited call ended
\*   dreg: this.registered when disconnect() was entered
\*   early: this.registered when ua.disconnect() was issued
\*   unregd: the awaited 'unregistered' promise had resolved at that moment
\*   pre: the call was made before any registration had completed
\*   seen: this.registeredPromise when the application made the call:
\*     none (undefined) | pending | resolved | rejected
FreeProc == [kind |-> "free", pc |-> "free", pr |-> 0, slot |-> 0, hua |-> 0,
             attempt |-> 0, res |-> "none", early |-> FALSE, dreg |-> FALSE,
             unregd |-> FALSE, pre |-> FALSE, seen |-> "none"]

\* A WebCallingSession: st free | live | terminated; armed: the once('terminated')
\* listener of the registry is attached; removed: how often that listener ran;
\* emitted: how often the session emitted 'terminated'.
FreeSess == [st |-> "free", armed |-> FALSE, removed |-> 0, emitted |-> 0]

\* What an observer of the console / the engine has seen.
\*   reports: retriesLeft of every onFailedAttempt of the current supervision
\*   attempts: connect() attempts of the current supervision
\*   gaveUp: 'Not attempting to reconnect anymore' was logged for it
\*   unexpected: a transport was lost without ua.disconnect() having been asked
\*   everRegistered: a 'registered' listener has run
\*   everConnect: the application has called connect()
\*   everTransport: a transport has emitted 'connected'
\*   spent: an earlier supervision reported failed attempts and then succeeded
NoHist == [reports |-> <<>>, attempts |-> 0, gaveUp |-> FALSE, unexpected |-> FALSE,
           everRegistered |-> FALSE, everConnect |-> FALSE, everTransport |-> FALSE,
           spent |-> FALSE]

\* The whole state as one record: the code between two awaits is a composition
\* of functions on it.
Cur == [ua |-> ua, transportConnectedPromise |-> transportConnectedPromise,
        unregisteredPromise |-> unregisteredPromise,
        registeredPromise |-> registeredPromise,
        disconnectPromise |-> disconnectPromise,
        registered |-> registered, isReconnecting |-> isReconnecting,
        sessions |-> sessions, eng |-> eng, prom |-> prom, proc |-> proc,
        mq |-> mq, sessionObj |-> sessionObj, budget |-> budget, hist |-> hist,
        ovf |-> FALSE]

Min(S) == CHOOSE x \in S : \A y \in S : x <= y

SeqToSet(s) == {s[i] : i \in 1..Len(s)}

FreeSlots(S) == {u \in UAs : S.eng[u].st = "free"}
FreeProms(S) == {i \in Proms : S.prom[i].st = "free"}
FreeProcs(S) == {p \in Procs : S.proc[p].kind = "free"}

\* --------------------------------------------------- promises and awaits
\* resolve() / reject(): settles a pending promise and queues the continuations
\* awaiting it, in the order they began to wait; no effect on a settled one.
SettleProm(S, i, st, err) ==
  IF S.prom[i].st # "pending" THEN S
  ELSE [S EXCEPT !.prom[i].st = st, !.prom[i].err = err, !.prom[i].w = <<>>,
                 !.mq = S.mq \o S.prom[i].w]

RECURSIVE SettleAll(_, _, _, _)
SettleAll(S, seq, st, err) ==
  IF seq = <<>> THEN S
  ELSE SettleAll(SettleProm(S, Head(seq), st, err), Tail(seq), st, err)

SettleTcp(S, u, st) ==
  IF S.eng[u].tcp # "pending" THEN S
  ELSE [S EXCEPT !.eng[u].tcp = st, !.eng[u].tcpw = <<>>,
                 !.mq = S.mq \o S.eng[u].tcpw]

\* `await promise`: the call suspends at pc; it resumes in a later microtask,
\* at once if the promise has settled already.
AwaitProm(S, p, pc, i) ==
  LET S1 == [S EXCEPT !.proc[p].pc = pc, !.proc[p].pr = i] IN
  IF S.prom[i].st = "pending" THEN [S1 EXCEPT !.prom[i].w = Append(@, p)]
  ELSE [S1 EXCEPT !.mq = Append(@, p)]

AwaitTcp(S, p, u) ==
  LET S1 == [S EXCEPT !.proc[p].pc = "c_tcp", !.proc[p].slot = u] IN
  IF u # 0 /\ S.eng[u].tcp = "pending" THEN [S1 EXCEPT !.eng[u].tcpw = Append(@, p)]
  ELSE [S1 EXCEPT !.mq = Append(@, p)]

\* The caller of an async function resumes one microtask after it returned.
Yield(S, p, pc, res) ==
  [S EXCEPT !.proc[p].pc = pc, !.proc[p].res = res, !.proc[p].pr = 0,
            !.proc[p].slot = 0, !.mq = Append(@, p)]

EndProc(S, p) == [S EXCEPT !.proc[p] = FreeProc]

\* ------------------------------------------------------------ the engine
\* ua.start(): the first start of an instance creates its transport, emits
\* 'transportCreated' (whose listener, lines 202-233, attaches the transport's
\* 'connected' and 'disconnected' once-listeners) and begins to connect; a
\* later start of the same instance opens nothing new.
uaStart(S, u) ==
  IF S.eng[u].st = "init"
  THEN [S EXCEPT !.eng[u].st = "live", !.eng[u].nStart = @ + 1,
                 !.eng[u].tr = "connecting",
                 !.eng[u].lsnConn = S.eng[u].lsnUA,
                 !.eng[u].lsnDisc = S.eng[u].lsnUA]
  ELSE [S EXCEPT !.eng[u].nStart = @ + 1]

\* ua.register()
uaRegister(S, u) ==
  [S EXCEPT !.eng[u].regQ = @ + 1, !.eng[u].nReg = @ + 1]

\* ua.unregister()
uaUnregister(S, u) ==
  [S EXCEPT !.eng[u].unregQ = @ + 1, !.eng[u].nUnreg = @ + 1]

\* ua.disconnect(), awaited by call p
uaDisconnect(S, u, p) ==
  [S EXCEPT !.eng[u].nDisc = @ + 1, !.eng[u].discQ = @ \cup {p},
            !.proc[p].pc = "d_disc", !.proc[p].slot = u, !.proc[p].pr = 0,
            !.proc[p].early = S.registered,
            !.proc[p].unregd = (S.proc[p].pr # 0
                                  /\ S.prom[S.proc[p].pr].st = "resolved")]

\* this.ua.transport.removeAllListeners(); this.ua.removeAllListeners()
removeAllListeners(S, u) ==
  [S EXCEPT !.eng[u].lsnConn = FALSE, !.eng[u].lsnDisc = FALSE,
            !.eng[u].lsnUA = FALSE, !.eng[u].onReg = <<>>,
            !.eng[u].onFail = <<>>, !.eng[u].onUnreg = <<>>]

\* --------------------------------------------------------- configureUA()
configureUA(S) ==
  IF FreeSlots(S) = {} THEN [S EXCEPT !.ovf = TRUE]
  ELSE LET u == Min(FreeSlots(S)) IN
       [S EXCEPT !.ua = u, !.transportConnectedPromise = u,
                 !.eng[u] = [FreeEng EXCEPT !.st = "init", !.lsnUA = TRUE]]

\* ------------------------------------------------------------- connect()
\* How a connect() call ends.  Called by the application it is over; called by
\* p-retry inside reconnect(), p-retry sees the outcome one microtask later.
connectReturn(S, p, res) ==
  IF S.proc[p].kind = "connect"
  THEN [S EXCEPT !.proc[p].pc = IF res = "ok" THEN "resolved" ELSE "rejected",
                 !.proc[p].res = res, !.proc[p].pr = 0, !.proc[p].slot = 0]
  ELSE Yield(S, p, "h_attempt", res)

\* lines 85-100
connectRegister(S, p) ==
  IF S.registeredPromise # 0
  THEN AwaitProm(S, p, "c_ret", S.registeredPromise)
  ELSE IF FreeProms(S) = {} THEN [S EXCEPT !.ovf = TRUE]
  ELSE LET i == Min(FreeProms(S)) IN
    IF S.ua = 0
    THEN \* this.ua.once throws in the executor: the promise is born rejected,
         \* and this.ua.start() throws a TypeError out of connect()
         connectReturn([S EXCEPT !.registeredPromise = i,
                           !.prom[i] = [FreeProm EXCEPT !.st = "rejected",
                                           !.kind = "reg", !.err = "abort"]],
                       p, "abort")
    ELSE LET u  == S.ua
             S1 == [S EXCEPT !.registeredPromise = i,
                       !.prom[i] = [FreeProm EXCEPT !.st = "pending", !.kind = "reg"],
                       !.eng[u].onReg = Append(@, i),
                       !.eng[u].onFail = Append(@, i)]
             S2 == uaStart(S1, u)
         IN AwaitTcp(S2, p, S2.transportConnectedPromise)

\* lines 71-83
connect(S, p) ==
  LET S1 == IF S.ua = 0 THEN configureUA(S) ELSE S IN
  IF S1.unregisteredPromise # 0
  THEN AwaitProm(S1, p, "c_unreg", S1.unregisteredPromise)
  ELSE connectRegister(S1, p)

\* lines 99-107: resumed when the awaited transportConnectedPromise has settled
connectTransportReady(S, p) ==
  LET u == S.proc[p].slot IN
  IF u # 0 /\ S.eng[u].tcp = "rejected" THEN connectReturn(S, p, "err")
  ELSE IF S.ua = 0 THEN connectReturn(S, p, "abort")
  ELSE LET S1 == uaRegister(S, S.ua) IN
       IF S1.registeredPromise = 0 THEN connectReturn(S1, p, "ok")
       ELSE AwaitProm(S1, p, "c_ret", S1.registeredPromise)

\* the promise connect() returned (lines 86, 107) has settled
connectSettled(S, p) ==
  LET i == S.proc[p].pr IN
  connectReturn(S, p, IF S.prom[i].st = "resolved" THEN "ok" ELSE S.prom[i].err)

\* ---------------------------------------------------------- disconnect()
disconnectReturn(S, p, res) ==
  IF S.proc[p].kind = "disconnect"
  THEN [S EXCEPT !.proc[p].pc = IF res = "ok" THEN "resolved" ELSE "rejected",
                 !.proc[p].res = res, !.proc[p].pr = 0, !.proc[p].slot = 0]
  ELSE Yield(S, p, "h_disc", res)

\* lines 139-141: this.ua.disconnect() (a TypeError when this.ua is gone or
\* has no transport yet)
disconnectTeardown(S, p) ==
  IF S.ua = 0 \/ S.eng[S.ua].tr = "none" THEN disconnectReturn(S, p, "abort")
  ELSE uaDisconnect(S, S.ua, p)

\* disconnect() that does not wait for 'unregistered'
disconnectNoWait(S, p) ==
  IF S.ua = 0 THEN disconnectReturn(S, p, "err")
  ELSE LET S1 == [S EXCEPT !.registeredPromise = 0,
                           !.proc[p].dreg = S.registered] IN
    IF S1.registered
    THEN IF FreeProms(S1) = {} THEN [S1 EXCEPT !.ovf = TRUE]
         ELSE LET i  == Min(FreeProms(S1))
                  u  == S1.ua
                  S2 == [S1 EXCEPT !.unregisteredPromise = i,
                            !.prom[i] = [FreeProm EXCEPT !.st = "pending", !.kind = "unreg"],
                            !.eng[u].onUnreg = Append(@, i),
                            !.proc[p].pr = i]
              IN disconnectTeardown(uaUnregister(S2, u), p)
    ELSE disconnectTeardown(S1, p)

\* disconnect() without the test of this.registered (line 122)
disconnectAlwaysUnregisters(S, p) ==
  IF S.ua = 0 THEN disconnectReturn(S, p, "err")
  ELSE LET S1 == [S EXCEPT !.registeredPromise = 0,
                           !.proc[p].dreg = S.registered] IN
    IF FreeProms(S1) = {} THEN [S1 EXCEPT !.ovf = TRUE]
    ELSE LET i  == Min(FreeProms(S1))
             u  == S1.ua
             S2 == [S1 EXCEPT !.unregisteredPromise = i,
                       !.prom[i] = [FreeProm EXCEPT !.st = "pending", !.kind = "unreg"],
                       !.eng[u].onUnreg = Append(@, i)]
         IN AwaitProm(uaUnregister(S2, u), p, "d_unreg", i)

\* lines 111-137
disconnect(S, p) ==
  IF S.disconnectPromise # 0
  THEN [S EXCEPT !.proc[p].pc = "d_shared"]
  ELSE IF S.ua = 0 THEN disconnectReturn(S, p, "err")
  ELSE LET S1 == [S EXCEPT !.registeredPromise = 0,
                           !.proc[p].dreg = S.registered] IN
    IF S1.registered
    THEN IF FreeProms(S1) = {} THEN [S1 EXCEPT !.ovf = TRUE]
         ELSE LET i  == Min(FreeProms(S1))
                  u  == S1.ua
                  S2 == [S1 EXCEPT !.unregisteredPromise = i,
                            !.prom[i] = [FreeProm EXCEPT !.st = "pending", !.kind = "unreg"],
                            !.eng[u].onUnreg = Append(@, i)]
              IN AwaitProm(uaUnregister(S2, u), p, "d_unreg", i)
    ELSE disconnectTeardown(S1, p)

\* lines 143-149: resumed when ua.disconnect() has completed
disconnectFinish(S, p) ==
  IF S.ua = 0 \/ S.eng[S.ua].tr = "none" THEN disconnectReturn(S, p, "abort")
  ELSE LET S1 == removeAllListeners(S, S.ua) IN
       disconnectReturn([S1 EXCEPT !.ua = 0, !.unregisteredPromise = 0], p, "ok")

\* ------------------------------------- reconnect() and the 'disconnected' handler
\* lines 225-231: reconnect() has returned `connected`
handlerEnd(S, h) ==
  LET u         == S.proc[h].hua
      connected == S.proc[h].res = "ok"
      S1        == [S EXCEPT !.isReconnecting = FALSE]
  IN EndProc(SettleTcp(S1, u, IF connected THEN "resolved" ELSE "rejected"), h)

\* lines 191-195: p-retry has settled, reconnect() returns true or false
reconnectReturn(S, h, connected) ==
  Yield([S EXCEPT !.hist.gaveUp = ~connected,
                  !.hist.spent = @ \/ (connected /\ S.hist.reports # <<>>)],
        h, "h_reconnected",
        IF connected THEN "ok" ELSE "err")

\* p-retry stopping one attempt short
pRetryAttemptShort(S, h) ==
  LET res == S.proc[h].res
      n   == S.proc[h].attempt
  IN IF res = "ok" THEN reconnectReturn(S, h, TRUE)
     ELSE IF res = "abort" THEN reconnectReturn(S, h, FALSE)
     ELSE LET S1 == [S EXCEPT !.hist.reports = Append(@, retries - (n - 1))] IN
          IF n < retries THEN [S1 EXCEPT !.proc[h].pc = "h_backoff"]
          ELSE reconnectReturn(S1, h, FALSE)

\* lines 178-190: p-retry sees how attempt number proc[h].attempt ended.  It
\* gives up at once on a TypeError or on a rejection that is no Error; else it
\* calls onFailedAttempt with retriesLeft = retries - (attemptNumber - 1) and
\* retries after a delay while retries are left.
pRetryAttempt(S, h) ==
  LET res == S.proc[h].res
      n   == S.proc[h].attempt
  IN IF res = "ok" THEN reconnectReturn(S, h, TRUE)
     ELSE IF res = "abort" THEN reconnectReturn(S, h, FALSE)
     ELSE LET S1 == [S EXCEPT !.hist.reports = Append(@, retries - (n - 1))] IN
          IF n <= retries THEN [S1 EXCEPT !.proc[h].pc = "h_backoff"]
          ELSE reconnectReturn(S1, h, FALSE)

\* p-retry calls connect() for the next attempt
pRetryRun(S, h) ==
  connect([S EXCEPT !.proc[h].attempt = @ + 1, !.hist.attempts = @ + 1], h)

\* reconnect() drawing on what the supervisions before it left of the budget
reconnectSharedBudget(S, h) ==
  pRetryRun([S EXCEPT !.isReconnecting = TRUE, !.proc[h].attempt = S.hist.attempts,
                      !.hist.reports = <<>>, !.hist.gaveUp = FALSE], h)

\* lines 174-178
reconnect(S, h) ==
  pRetryRun([S EXCEPT !.isReconnecting = TRUE, !.proc[h].attempt = 0,
                      !.hist.reports = <<>>, !.hist.attempts = 0,
                      !.hist.gaveUp = FALSE], h)

\* the handler without its isReconnecting test
handlerAfterDisconnectUnguarded(S, h) ==
  IF S.proc[h].res # "ok" THEN EndProc(S, h)
  ELSE reconnect(S, h)

\* lines 214-223: resumed after `await this.disconnect()`; when that threw, the
\* handler ends there
handlerAfterDisconnect(S, h) ==
  IF S.proc[h].res # "ok" THEN EndProc(S, h)
  ELSE IF S.isReconnecting
       THEN EndProc(SettleTcp(S, S.proc[h].hua, "rejected"), h)
       ELSE reconnect(S, h)

\* lines 209-212: the transport of instance u emitted 'disconnected'
handler(S, u) ==
  LET h == Min(FreeProcs(S)) IN
  disconnect([S EXCEPT !.proc[h] = [FreeProc EXCEPT !.kind = "handler",
                                       !.pc = "run", !.hua = u]], h)

\* -------------------------------------------------------------- invite()
\* invite() that refuses to wait for a registration still in flight
inviteNoWait(S, p) ==
  IF S.registeredPromise = 0 \/ S.prom[S.registeredPromise].st = "pending"
  THEN [S EXCEPT !.proc[p].pc = "rejected", !.proc[p].res = "noreg"]
  ELSE AwaitProm(S, p, "i_reg", S.registeredPromise)

\* invite() without the test of line 155
inviteUnguarded(S, p) ==
  IF S.registeredPromise = 0
  THEN LET s == Min({x \in Sess : S.sessionObj[x].st = "free"}) IN
       [S EXCEPT !.sessionObj[s] = [FreeSess EXCEPT !.st = "live", !.armed = TRUE],
                 !.sessions = @ \cup {s},
                 !.proc[p].pc = "resolved", !.proc[p].res = "ok"]
  ELSE AwaitProm(S, p, "i_reg", S.registeredPromise)

\* lines 154-159: throw new Error('Register first!') ("noreg"), or wait for
\* this.registeredPromise
invite(S, p) ==
  IF S.registeredPromise = 0
  THEN [S EXCEPT !.proc[p].pc = "rejected", !.proc[p].res = "noreg"]
  ELSE AwaitProm(S, p, "i_reg", S.registeredPromise)

\* lines 159-171: resumed when the awaited registeredPromise has settled
inviteRegistered(S, p) ==
  LET i  == S.proc[p].pr
      S0 == [S EXCEPT !.proc[p].pr = 0]
  IN IF S.prom[i].st = "rejected" \/ S.ua = 0
     THEN [S0 EXCEPT !.proc[p].pc = "rejected",
                     !.proc[p].res = IF S.ua = 0 THEN "abort" ELSE "err"]
     ELSE IF \A s \in Sess : S.sessionObj[s].st # "free" THEN [S0 EXCEPT !.ovf = TRUE]
     ELSE LET s == Min({x \in Sess : S.sessionObj[x].st = "free"}) IN
          [S0 EXCEPT !.sessionObj[s] = [FreeSess EXCEPT !.st = "live", !.armed = TRUE],
                     !.sessions = @ \cup {s},
                     !.proc[p].pc = "resolved", !.proc[p].res = "ok"]

\* -------------------------------------------------------------- sessions
\* session.once('terminated', () => delete this.sessions[session.id])
sessionListener(S, s) ==
  [S EXCEPT !.sessionObj[s].armed = FALSE, !.sessionObj[s].removed = @ + 1,
            !.sessions = @ \ {s}]

\* the session emits 'terminated'
emitTerminated(S, s) ==
  LET S1 == [S EXCEPT !.sessionObj[s].st = "terminated",
                      !.sessionObj[s].emitted = @ + 1] IN
  IF S.sessionObj[s].armed THEN sessionListener(S1, s) ELSE S1

\* lines 236-251: the 'invite' listener; observerEnds: an observer of the client's
\* 'invite' event ends the session (rejects the call) inside the notification
inviteListener(S, observerEnds) ==
  LET s  == Min({x \in Sess : S.sessionObj[x].st = "free"})
      S1 == [S EXCEPT !.sessionObj[s] = [FreeSess EXCEPT !.st = "live"],
                      !.sessions = @ \cup {s}]
      S2 == IF observerEnds THEN emitTerminated(S1, s) ELSE S1
  IN [S2 EXCEPT !.sessionObj[s].armed = TRUE]

\* ------------------------------------------------- objects no longer in use
\* A promise object nothing refers to any more is dropped, and so is an engine
\* instance that was released, has no listeners left and is awaited by nobody:
\* no event of such an object can reach the client.
PromRefs(S) ==
  {S.registeredPromise, S.unregisteredPromise}
    \cup {S.proc[p].pr : p \in Procs}
    \cup UNION {SeqToSet(S.eng[u].onReg) \cup SeqToSet(S.eng[u].onFail)
                  \cup SeqToSet(S.eng[u].onUnreg) : u \in UAs}

HasListeners(e) ==
  e.lsnUA \/ e.lsnConn \/ e.lsnDisc \/ e.onReg # <<>> \/ e.onFail # <<>>
    \/ e.onUnreg # <<>>

\* the client can still observe this instance: it is this.ua, it has listeners,
\* or a call awaits its ua.disconnect()
Observable(S, u) ==
  S.eng[u].st # "free" /\ (S.ua = u \/ HasListeners(S.eng[u]) \/ S.eng[u].discQ # {})

SlotRefs(S) ==
  {S.ua, S.transportConnectedPromise}
    \cup {S.proc[p].slot : p \in Procs} \cup {S.proc[p].hua : p \in Procs}

Normalize(S) ==
  LET pr == PromRefs(S)
      sr == SlotRefs(S)
  IN [S EXCEPT
       !.prom = [i \in Proms |-> IF i \in pr THEN S.prom[i] ELSE FreeProm],
       !.eng  = [u \in UAs |->
                  IF S.eng[u].st = "free" \/ Observable(S, u) THEN S.eng[u]
                  ELSE IF u \in sr
                       THEN [FreeEng EXCEPT !.st = "released",
                                            !.tcp = S.eng[u].tcp,
                                            !.tcpw = S.eng[u].tcpw]
                       ELSE FreeEng]]

Apply(S) ==
  /\ ~S.ovf
  /\ LET T == Normalize(S) IN
     /\ ua' = T.ua
     /\ transportConnectedPromise' = T.transportConnectedPromise
     /\ unregisteredPromise' = T.unregisteredPromise
     /\ registeredPromise' = T.registeredPromise
     /\ disconnectPromise' = T.disconnectPromise
     /\ registered' = T.registered
     /\ isReconnecting' = T.isReconnecting
     /\ sessions' = T.sessions
     /\ eng' = T.eng
     /\ prom' = T.prom
     /\ proc' = T.proc
     /\ mq' = T.mq
     /\ sessionObj' = T.sessionObj
     /\ budget' = T.budget
     /\ hist' = T.hist

\* ------------------------------------------------------------------ Init
\* What the application and the network will do: how many connect(),
\* disconnect() and invite() calls, unexpected transport losses and inbound
\* invitations.  Overlapping calls, a whole failing reconnect supervision, and
\* sessions are explored each with the others kept small.
Profiles ==
  { [connect |-> MaxConnect, disconnect |-> 1, invite |-> 0,
     loss |-> MaxLoss, inbound |-> 0],
    [connect |-> 1, disconnect |-> MaxDisconnect, invite |-> 0,
     loss |-> MaxLoss, inbound |-> 0],
    [connect |-> 1, disconnect |-> 0, invite |-> 0,
     loss |-> retries + 2, inbound |-> 0],
    [connect |-> 1, disconnect |-> 1, invite |-> MaxInvite,
     loss |-> 0, inbound |-> MaxSess] }

\* lines 44-59: the state after construction
Init ==
  /\ ua = 0
  /\ transportConnectedPromise = 0
  /\ unregisteredPromise = 0
  /\ registeredPromise = 0
  /\ disconnectPromise = 0
  /\ registered = FALSE
  /\ isReconnecting = FALSE
  /\ sessions = {}
  /\ eng = [u \in UAs |-> FreeEng]
  /\ prom = [i \in Proms |-> FreeProm]
  /\ proc = [p \in Procs |-> FreeProc]
  /\ mq = <<>>
  /\ sessionObj = [s \in Sess |-> FreeSess]
  /\ budget \in Profiles
  /\ hist = NoHist

\* ---------------------------------------------- calls by the application
NewCall(kind) ==
  LET p == Min(FreeProcs(Cur)) IN
  [Cur EXCEPT !.proc[p] = [FreeProc EXCEPT !.kind = kind, !.pc = "run",
                                           !.pre = ~hist.everRegistered,
                                           !.seen = IF registeredPromise = 0 THEN "none"
                                                    ELSE prom[registeredPromise].st],
              !.hist.everConnect = @ \/ kind = "connect",
              !.budget[kind] = @ - 1]

UserConnect ==
  /\ budget.connect > 0
  /\ Apply(connect(NewCall("connect"), Min(FreeProcs(Cur))))

UserDisconnect ==
  /\ budget.disconnect > 0
  /\ Apply(disconnect(NewCall("disconnect"), Min(FreeProcs(Cur))))

UserInvite ==
  /\ budget.invite > 0
  /\ Apply(invite(NewCall("invite"), Min(FreeProcs(Cur))))

\* ------------------------------------------------- microtasks: continuations
Ready(pc) == mq # <<>> /\ proc[Head(mq)].pc = pc
Popped == [Cur EXCEPT !.mq = Tail(@)]

ResumeConnectUnregistered ==
  /\ Ready("c_unreg")
  /\ Apply(connectRegister([Popped EXCEPT !.proc[Head(mq)].pr = 0], Head(mq)))

ResumeConnectTransport ==
  /\ Ready("c_tcp")
  /\ Apply(connectTransportReady(Popped, Head(mq)))

ResumeConnectSettled ==
  /\ Ready("c_ret")
  /\ Apply(connectSettled(Popped, Head(mq)))

ResumeDisconnectUnregistered ==
  /\ Ready("d_unreg")
  /\ Apply(disconnectTeardown(Popped, Head(mq)))

ResumeDisconnectFinish ==
  /\ Ready("d_disc")
  /\ Apply(disconnectFinish(Popped, Head(mq)))

ResumeHandlerDisconnected ==
  /\ Ready("h_disc")
  /\ Apply(handlerAfterDisconnect(Popped, Head(mq)))

ResumeRetryAttempt ==
  /\ Ready("h_attempt")
  /\ Apply(pRetryAttempt(Popped, Head(mq)))

ResumeHandlerReconnected ==
  /\ Ready("h_reconnected")
  /\ Apply(handlerEnd(Popped, Head(mq)))

ResumeInvite ==
  /\ Ready("i_reg")
  /\ Apply(inviteRegistered(Popped, Head(mq)))

\* ------------------------------------------ macrotasks: timers and the engine
\* p-retry's delay has passed
RetryTimer ==
  \E h \in Procs :
    /\ mq = <<>>
    /\ proc[h].pc = "h_backoff"
    /\ Apply(pRetryRun(Cur, h))

\* transport 'connected': lines 204-207
TransportConnected ==
  \E u \in UAs :
    /\ mq = <<>>
    /\ Observable(Cur, u)
    /\ eng[u].tr = "connecting"
    /\ LET S1 == [Cur EXCEPT !.eng[u].tr = "connected", !.eng[u].lsnConn = FALSE,
                            !.hist.everTransport = TRUE] IN
       Apply(IF eng[u].lsnConn THEN SettleTcp(S1, u, "resolved") ELSE S1)

\* transport 'disconnected' reaches the listener of lines 209-232, if attached
transportDown(S, u) ==
  LET S1 == [S EXCEPT !.eng[u].tr = "closed", !.eng[u].lsnDisc = FALSE] IN
  IF S.eng[u].lsnDisc THEN handler(S1, u) ELSE S1

\* the transport is lost, or never connects, without the client having asked
TransportLost ==
  \E u \in UAs :
    /\ mq = <<>>
    /\ Observable(Cur, u)
    /\ eng[u].tr \in {"connecting", "connected"}
    /\ eng[u].discQ = {}
    /\ budget.loss > 0
    /\ Apply(transportDown([Cur EXCEPT !.hist.unexpected = TRUE,
                                       !.budget.loss = @ - 1], u))

\* the transport closes because ua.disconnect() asked for it
TransportClosed ==
  \E u \in UAs :
    /\ mq = <<>>
    /\ eng[u].tr \in {"connecting", "connected"}
    /\ eng[u].discQ # {}
    /\ Apply(transportDown(Cur, u))

\* ua.disconnect() of call p completes, the transport being closed
DisconnectDone ==
  \E u \in UAs : \E p \in eng[u].discQ :
    /\ mq = <<>>
    /\ eng[u].tr = "closed"
    /\ Apply([Cur EXCEPT !.eng[u].discQ = @ \ {p}, !.mq = Append(@, p)])

\* 'registered': lines 90-93
Registered ==
  \E u \in UAs :
    /\ mq = <<>>
    /\ Observable(Cur, u)
    /\ eng[u].regQ > 0
    /\ eng[u].tr = "connected"
    /\ LET S1 == [Cur EXCEPT !.eng[u].regQ = @ - 1, !.eng[u].onReg = <<>>,
                            !.registered = (eng[u].onReg # <<>>) \/ @,
                            !.hist.everRegistered = (eng[u].onReg # <<>>) \/ @]
       IN Apply(SettleAll(S1, eng[u].onReg, "resolved", "none"))

\* 'registrationFailed': line 94
RegistrationFailed ==
  \E u \in UAs :
    /\ mq = <<>>
    /\ Observable(Cur, u)
    /\ eng[u].regQ > 0
    /\ LET S1 == [Cur EXCEPT !.eng[u].regQ = @ - 1, !.eng[u].onFail = <<>>]
       IN Apply(SettleAll(S1, eng[u].onFail, "rejected", "abort"))

\* 'unregistered': lines 124-127
Unregistered ==
  \E u \in UAs :
    /\ mq = <<>>
    /\ Observable(Cur, u)
    /\ eng[u].unregQ > 0
    /\ LET S1 == [Cur EXCEPT !.eng[u].unregQ = @ - 1, !.eng[u].onUnreg = <<>>,
                            !.registered = (eng[u].onUnreg = <<>>) /\ @]
       IN Apply(SettleAll(S1, eng[u].onUnreg, "resolved", "none"))

\* 'invite': lines 236-251
InboundInvite ==
  \E u \in UAs : \E observerEnds \in BOOLEAN :
    /\ mq = <<>>
    /\ eng[u].lsnUA
    /\ eng[u].tr = "connected"
    /\ \E s \in Sess : sessionObj[s].st = "free"
    /\ budget.inbound > 0
    /\ Apply(inviteListener([Cur EXCEPT !.budget.inbound = @ - 1], observerEnds))

\* a live session ends
SessionTerminated ==
  \E s \in Sess :
    /\ sessionObj[s].st = "live"
    /\ Apply(emitTerminated(Cur, s))

\* the engine emits the termination of an ended session once more
SessionTerminatedAgain ==
  \E s \in Sess :
    /\ sessionObj[s].st = "terminated"
    /\ sessionObj[s].emitted < MaxEmit
    /\ Apply(emitTerminated(Cur, s))

Next ==
  \/ UserConnect
  \/ UserDisconnect
  \/ UserInvite
  \/ ResumeConnectUnregistered
  \/ ResumeConnectTransport
  \/ ResumeConnectSettled
  \/ ResumeDisconnectUnregistered
  \/ ResumeDisconnectFinish
  \/ ResumeHandlerDisconnected
  \/ ResumeRetryAttempt
  \/ ResumeHandlerReconnected
  \/ ResumeInvite
  \/ RetryTimer
  \/ TransportConnected
  \/ TransportLost
  \/ TransportClosed
  \/ DisconnectDone
  \/ Registered
  \/ RegistrationFailed
  \/ Unregistered
  \/ InboundInvite
  \/ SessionTerminated
  \/ SessionTerminatedAgain

Spec == Init /\ [][Next]_vars

\* ================================================================ claims
UserCalls(kind) == {p \in Procs : proc[p].kind = kind}
NoUserDisconnect == UserCalls("disconnect") = {}

\* C1: connect() calls made before registration completes (and no
\* disconnect() call by the application) run one registration cycle: an engine
\* instance receives at most one start and at most one register command,
\* whatever engine events arrive in between.
C1_OneRegistrationCycle ==
  (NoUserDisconnect /\ ~hist.everRegistered) =>
    \A u \in UAs : eng[u].nStart <= 1 /\ eng[u].nReg <= 1

\* The promise can never settle: no listener that resolves or rejects it is left.
Orphan(i) ==
  /\ prom[i].st = "pending"
  /\ \A u \in UAs : i \notin SeqToSet(eng[u].onReg) \cup SeqToSet(eng[u].onFail)

Outcome(p) ==
  IF proc[p].pc = "resolved" THEN "resolved"
  ELSE IF proc[p].pc = "rejected" THEN "rejected"
  ELSE IF proc[p].pc = "c_ret" /\ Orphan(proc[p].pr) THEN "never"
  ELSE "open"

EarlyConnects == {p \in UserCalls("connect") : proc[p].pre}

\* C2: all connect() calls made before registration completes settle with
\* the same outcome: no two of them end differently (resolved, rejected, or
\* left waiting for ever).
C2_SameOutcome ==
  NoUserDisconnect =>
    \A p, q \in EarlyConnects :
      Outcome(p) = "open" \/ Outcome(q) = "open" \/ Outcome(p) = Outcome(q)

\* C3: overlapping disconnect() calls share one teardown: an engine instance
\* receives at most one unregister and at most one transport-disconnect command.
C3_OneTeardown ==
  \A u \in UAs : eng[u].nUnreg <= 1 /\ eng[u].nDisc <= 1

\* C3: two disconnect() calls of the application, no transport event in
\* between, each wait for a ua.disconnect() of its own on the same instance
C3_Witness ==
  \E p, q \in UserCalls("disconnect") : \E u \in UAs :
    /\ p # q
    /\ eng[u].discQ = {p, q}
    /\ eng[u].tr # "closed"
    /\ \A h \in Procs : proc[h].kind # "handler"

\* C4: a disconnect() issues ua.disconnect() only while this.registered is
\* false, and, when it was entered registered, only after its unregister
\* command was answered by 'unregistered'.
C4_UnregisterBeforeTeardown ==
  \A p \in Procs :
    /\ ~proc[p].early
    /\ (proc[p].dreg /\ proc[p].pc = "d_disc") => proc[p].unregd

\* C4: a disconnect() entered while registered has received 'unregistered'
\* and has now issued ua.disconnect()
C4_Witness ==
  \E p \in Procs :
    /\ proc[p].kind = "disconnect"
    /\ proc[p].dreg /\ proc[p].pc = "d_disc" /\ proc[p].unregd
    /\ ~registered

\* C5: without an unexpected transport loss (only teardowns the application
\* asked for) no reconnect supervision starts: isReconnecting stays false and
\* the client makes no connect() attempt of its own.
C5_NoReconnectAfterUserDisconnect ==
  ~hist.unexpected =>
    /\ ~isReconnecting
    /\ \A h \in Procs : proc[h].kind = "handler" => proc[h].attempt = 0

\* every attempt of the supervision failed on its transport and was reported
AllAttemptsFailed == hist.gaveUp /\ Len(hist.reports) = hist.attempts

\* C6 as stated: with every attempt failing, exactly `retries` connect()
\* attempts occur in the supervision.
C6_ExactlyRetriesAttempts ==
  AllAttemptsFailed => hist.attempts = retries

\* C6 amended: with every attempt failing, exactly retries + 1 connect()
\* attempts occur (the first and `retries` retries); the k-th failure is
\* reported with retries - (k - 1) attempts left, so strictly decreasing down
\* to 0; then the supervision has given up and no retry is pending.
C6_RetriesPlusOneAttempts ==
  /\ \A k \in 1..Len(hist.reports) : hist.reports[k] = retries - (k - 1)
  /\ hist.attempts <= retries + 1
  /\ AllAttemptsFailed =>
       /\ hist.attempts = retries + 1
       /\ hist.reports[Len(hist.reports)] = 0
       /\ \A h \in Procs : proc[h].pc # "h_backoff"

\* C6: the supervision made retries + 1 attempts, all failed, and has ended
C6_Witness ==
  /\ AllAttemptsFailed
  /\ hist.attempts = retries + 1
  /\ ~isReconnecting

Supervisors == {h \in Procs : proc[h].kind = "handler" /\ proc[h].attempt > 0}

\* C7: at most one reconnect supervision loop is active at any time.
C7_OneSupervision == Cardinality(Supervisors) <= 1

\* C7: a second handler, of a transport lost during the supervision, is about
\* to take its isReconnecting branch
C7_Witness ==
  \E h1, h2 \in Procs :
    /\ h1 \in Supervisors
    /\ proc[h2].kind = "handler" /\ proc[h2].attempt = 0
    /\ proc[h2].pc = "h_disc" /\ proc[h2].res = "ok"
    /\ isReconnecting

\* C8: registered implies that the transport of the client's engine instance
\* is connected.
C8_RegisteredImpliesConnected ==
  registered => (ua # 0 /\ eng[ua].tr = "connected")

LiveSessions == {s \in Sess : sessionObj[s].st = "live"}

\* C9: the session registry holds exactly the live sessions.
C9_RegistryIsLiveSessions == sessions = LiveSessions

\* C10: a session's termination removes it from the registry exactly once: a
\* terminated session has been removed once, and a further 'terminated'
\* emission leaves the registry as it is.
C10_RemovedExactlyOnce ==
  \A s \in Sess :
    /\ sessionObj[s].removed <= 1
    /\ sessionObj[s].st = "terminated" => sessionObj[s].removed = 1

\* C11 as stated: an invite() called while a registration is in flight (its
\* promise pending) does not wait for it: it is never found waiting for
\* this.registeredPromise and never creates a session.
C11_InviteInFlightFails ==
  \A p \in UserCalls("invite") :
    proc[p].seen = "pending" => proc[p].pc \notin {"i_reg", "resolved"}

\* C11 amended: invite() throws at once only when this.registeredPromise is
\* undefined; called while a registration is in flight it waits for that
\* registration, and it has created its session only after a 'registered'
\* event completed a registration.
C11_InviteWaitsForRegistration ==
  \A p \in UserCalls("invite") :
    /\ proc[p].res = "noreg" <=> proc[p].seen = "none"
    /\ proc[p].seen = "pending" => proc[p].pc \in {"i_reg", "resolved", "rejected"}
    /\ proc[p].pc = "resolved" => hist.everRegistered

\* C11: an invite() called while the registration was in flight has waited
\* and created its session
C11_Witness ==
  \E p \in UserCalls("invite") :
    /\ proc[p].seen = "pending" /\ proc[p].pc = "resolved"
    /\ sessions # {}

\* C12: an invite() called before any connect() is rejected at once
\* ('Register first!'); the step creates no session, leaves the registry as
\* it is and sends nothing to an engine instance.
C12_InviteBeforeConnectFails ==
  [][\A p \in Procs :
       (proc[p].kind = "free" /\ proc'[p].kind = "invite" /\ ~hist.everConnect) =>
         /\ proc'[p].pc = "rejected" /\ proc'[p].res = "noreg"
         /\ sessions' = sessions /\ sessionObj' = sessionObj /\ eng' = eng]_vars

\* C12: an invite() was called before any connect() and was rejected
C12_Witness ==
  \E p \in UserCalls("invite") :
    /\ ~hist.everConnect
    /\ proc[p].pc = "rejected" /\ proc[p].res = "noreg"
    /\ sessions = {}

\* connect() calls of the application whose transport never became ready: no
\* transport has connected and the application has not asked for a teardown
NeverReady == {p \in UserCalls("connect") : ~hist.everTransport /\ NoUserDisconnect}

\* Nothing is pending: every continuation has run, no retry delay is running
\* and the engine has answered every command (no transport still opening, no
\* register, unregister or disconnect unanswered).
Settled ==
  /\ mq = <<>>
  /\ \A h \in Procs : proc[h].pc # "h_backoff"
  /\ \A u \in UAs :
       Observable(Cur, u) =>
         /\ eng[u].tr # "connecting"
         /\ eng[u].regQ = 0 /\ eng[u].unregQ = 0 /\ eng[u].discQ = {}

\* C13: a connect() whose transport never becomes ready does not resolve; it
\* is rejected only when the supervision has given up, after exactly `retries`
\* failed attempts have been reported; and it does not stay pending: once
\* nothing is pending any more it has been rejected.
C13_RejectedOnceBudgetExhausted ==
  \A p \in NeverReady :
    /\ proc[p].pc # "resolved"
    /\ proc[p].pc = "rejected" => (hist.gaveUp /\ Len(hist.reports) = retries)
    /\ Settled => proc[p].pc = "rejected"

\* C13: the only connect() of the application was rejected when the
\* supervision gave up, no transport having connected: retries + 1 failed
\* attempts had been reported
C13_Witness ==
  \E p \in NeverReady :
    /\ UserCalls("connect") = {p}
    /\ proc[p].pc = "rejected" /\ proc[p].res = "err"
    /\ hist.gaveUp /\ Len(hist.reports) = retries + 1

\* C14: a disconnect() entered while this.registered is false (called by the
\* application or by the 'disconnected' handler) sends no unregister command,
\* creates no 'unregistered' promise and does not wait for one: its first
\* step ends at ua.disconnect(), or throws.
C14_NoUnregisterWhenUnregistered ==
  [][\A p \in Procs :
       (proc[p].kind = "free" /\ proc'[p].kind \in {"disconnect", "handler"}
          /\ ~registered) =>
         /\ \A u \in UAs : eng'[u].nUnreg <= eng[u].nUnreg
         /\ unregisteredPromise' = unregisteredPromise
         /\ proc'[p].pc \in {"d_disc", "rejected", "h_disc"}]_vars

\* C14: a disconnect() of the application, entered unregistered on a started
\* instance, has completed and that instance never received an unregister
C14_Witness ==
  \E p \in UserCalls("disconnect") :
    /\ ~proc[p].dreg /\ proc[p].pc = "resolved"
    /\ hist.everTransport /\ ~hist.everRegistered
    /\ \A u \in UAs : eng[u].nUnreg = 0

\* C15: a connect() called after 'registrationFailed' has rejected
\* this.registeredPromise starts a new cycle: it is not handed the promise
\* that had already failed when it was called.
C15_ConnectAfterFailureStartsAnew ==
  \A p \in UserCalls("connect") :
    proc[p].seen = "rejected" =>
      ~(proc[p].pc = "c_ret" /\ prom[proc[p].pr].st = "rejected")

\* C16: at the step in which a disconnect() call of the application completes,
\* this.ua is released, the instance it tore down has no listeners left,
\* this.registered is false and this.registeredPromise and
\* this.unregisteredPromise are cleared.
C16_CleanAfterDisconnect ==
  [][\A p \in Procs :
       (proc[p].kind = "disconnect" /\ proc[p].pc = "d_disc"
          /\ proc'[p].pc = "resolved") =>
         /\ ua' = 0
         /\ ~HasListeners(eng'[proc[p].slot])
         /\ ~registered'
         /\ registeredPromise' = 0
         /\ unregisteredPromise' = 0]_vars

\* C17: every reconnect supervision ends.  Once the engine has answered every
\* command and nothing is pending, no supervision is left unfinished:
\* this.isReconnecting has been cleared.
C17_SupervisionEnds == Settled => ~isReconnecting

\* C17: with one connect() by the application and no other call, a supervised
\* attempt lost its transport after it had connected and before 'registered';
\* p-retry now waits for a registeredPromise whose listeners were removed
C17_Witness ==
  \E h \in Supervisors :
    /\ Settled /\ isReconnecting
    /\ proc[h].pc = "c_ret" /\ Orphan(proc[h].pr)
    /\ Cardinality(UserCalls("connect")) = 1 /\ NoUserDisconnect
    /\ UserCalls("invite") = {}

\* C18: connect() issues ua.register() only on an instance whose transport is
\* connected at that moment.
C18_RegisterOnConnectedTransport ==
  [][\A u \in UAs :
       eng'[u].nReg > eng[u].nReg => eng[u].tr = "connected"]_vars

TouchesEngine(p) ==
  \/ proc[p].pc = "c_tcp" /\ ~(proc[p].slot # 0 /\ eng[proc[p].slot].tcp = "rejected")
  \/ proc[p].pc = "c_unreg" /\ registeredPromise = 0
  \/ proc[p].pc \in {"d_unreg", "d_disc"}
  \/ proc[p].pc = "i_reg" /\ prom[proc[p].pr].st # "rejected"

\* C20: a call that resumes after an await and then uses the engine finds
\* this.ua still set.
C20_EngineReferenceSet ==
  [][(mq # <<>> /\ proc'[Head(mq)] # proc[Head(mq)] /\ TouchesEngine(Head(mq)))
       => ua # 0]_vars

\* C20: with no disconnect() by the application, a connect() is next to
\* resume at ua.register() (line 105) while this.ua has been deleted by the
\* handler's internal disconnect()
C20_Witness ==
  /\ mq # <<>>
  /\ proc[Head(mq)].kind = "connect" /\ proc[Head(mq)].pc = "c_tcp"
  /\ TouchesEngine(Head(mq))
  /\ ua = 0
  /\ NoUserDisconnect
====
